---- MODULE Spec2Model ----
(***************************************************************************)
(* Verification model of the clothing-store schemas.                       *)
(*                                                                         *)
(* Part 1 (specification Spec): the Product quantity counters              *)
(* quantity / reservedQuantity / availableQuantity of ProductSchema.ts.    *)
(* The only code that maintains them is the schema's validators (min: 0)   *)
(* and the pre('save') hook, which runs on document.save(): a caller loads *)
(* a document, changes it in memory and saves it.  Mongoose runs the       *)
(* validators before the pre('save') hooks and writes the changed paths    *)
(* with $set; the schema enables no optimistic concurrency.  The           *)
(* reservation operations (reserve, release, commit, adjust, the sweep and *)
(* the reservation tokens) are described by the specification only; they   *)
(* are modelled from it on top of load / save.                             *)
(*                                                                         *)
(* Part 2 (specification SpecDocs): the derived totals of an Order         *)
(* (OrderSchema.ts) and of an Invoice (FinancialSchema.ts), recomputed by  *)
(* calculateTotals in each schema's pre('save') hook.  Amounts are exact   *)
(* integers; the inputs are chosen so that every percentage is whole.      *)
(* SpecLedger restricts the callers to payment events and the due date,    *)
(* SpecEdge hands in line items outside the valid ranges.                  *)
(*                                                                         *)
(* Part 3 (specification SpecStatus): the status of an Order.  The schema  *)
(* provides canBeCancelled, canBeReturned and the return deadline of the   *)
(* pre('save') hook; the transitions themselves (advance, cancelOrder,     *)
(* return / refund) are described by the specification only.               *)
(*                                                                         *)
(* Part 4: the other documents.  SpecBatch: the cost fields of a Batch     *)
(* (InventorySchema.ts pre('save')) and its status, whose transitions are  *)
(* described by the specification only.  SpecRates: the conversion to Euro *)
(* in the Expense pre('save') hook against the stored ExchangeRate         *)
(* documents.  SpecNumbers: the document numbers generated in pre('save')  *)
(* from a count of the stored documents, under concurrent first saves.     *)
(***************************************************************************)
EXTENDS Integers, Sequences, FiniteSets, TLC

\* ------------------------------------------------------------------ bounds
\* MaxQty: largest stock of a product; MaxOps: operations started in a run.
MaxQty == 2
MaxOps == 4
\* ReserveTimeout: ticks after which an unfinished reservation is swept.
ReserveTimeout == 1

Products == {"p1", "p2"}
Callers == {"c1", "c2"}
Sweeper == "sweep"
Procs == Callers \cup {Sweeper}
Tokens == 1..MaxOps

\* Products: the stored documents db, each caller's position pc, request
\* req, loaded document orig and changed document doc, the reservation
\* tokens, the last returned value ret and the count of operations nops.
\* Financial documents: the document in memory (order or invoice, by kind),
\* whether it was changed since its last save (dirty), and the count of
\* changes (edits); now is the clock, in days.
\* Other documents: the batch and the expense in memory, the stored
\* exchange rates, the stored documents of one numbering period (created)
\* and each caller's first save of a new document (creating).
VARIABLES db, pc, req, orig, doc, tokens, ret, nops,
          kind, order, invoice, dirty, edits, now,
          batch, expense, rates, created, creating

pvars == <<db, pc, req, orig, doc, tokens, ret, nops>>
xvars == <<batch, expense, rates, created, creating>>
fvars == <<kind, order, invoice, dirty, edits, now, xvars>>
vars == <<db, pc, req, orig, doc, tokens, ret, nops,
          kind, order, invoice, dirty, edits, now,
          batch, expense, rates, created, creating>>

\* ------------------------------------- OrderSchema.ts, FinancialSchema.ts
\* Money is modelled as exact integers; the inputs below are chosen so that
\* every percentage of a subtotal is a whole number.
MaxItems == 2
MaxDiscounts == 2
MaxPayments == 2
MaxEdits == 3

UnitPrices == {50}
Quantities == {1, 2}
ItemTaxes == {0, 8}
TaxRates == {0, 20}
PercentValues == {10}
FixedValues == {10}
ShippingCosts == {0, 5}
Fees == {0, 2}
PaymentAmounts == {30, 100}
ExchangeRates == {0, 2}

\* item.discount / order.discounts[i] / invoice.discount; type "NONE"
\* stands for an absent discount.
NoDiscount == [type |-> "NONE", value |-> 0, amount |-> 0]
OrderDiscountInputs ==
    {[type |-> "PERCENTAGE", value |-> v, amount |-> 0] : v \in PercentValues}
    \cup {[type |-> "FIXED_AMOUNT", value |-> v, amount |-> 0] : v \in FixedValues}
InvoiceDiscountInputs ==
    {[type |-> "PERCENTAGE", value |-> v, amount |-> 0] : v \in PercentValues}
    \cup {[type |-> "FIXED", value |-> v, amount |-> 0] : v \in FixedValues}

\* x * (v / 100)
Percent(x, v) == (x * v) \div 100

\* A date field that was never set.
NoDate == -1

\* this.returnDeadline = new Date(Date.now() + 14 * 24 * 60 * 60 * 1000)
ReturnDays == 14

\* OrderSchema defaults of a new document.  paymentTerms is the number of
\* days when paymentMethod is INVOICE and 0 otherwise; pastDue stands for
\* new Date() > this.dueDate.
NewOrder ==
    [items |-> <<>>, discounts |-> <<>>, payments |-> <<>>,
     shippingCost |-> 0, handlingFee |-> 0,
     subtotal |-> 0, totalQuantity |-> 0, totalItems |-> 0,
     discountTotal |-> 0, taxTotal |-> 0, total |-> 0,
     totalPaid |-> 0, balanceDue |-> 0, paymentStatus |-> "PENDING",
     paymentTerms |-> 0, pastDue |-> FALSE,
     status |-> "DRAFT", returnEligible |-> TRUE, returnDeadline |-> NoDate]

\* The amount of a discount d on the base amount: PERCENTAGE takes the
\* percentage of the base, every other type takes the value.
DiscountAmount(d, base) ==
    IF d.type = "PERCENTAGE" THEN Percent(base, d.value) ELSE d.value

\* calculateTotals, the body of items.forEach for one order item.
OrderItemTotals(item) ==
    LET subtotal == item.unitPrice * item.quantity
        discount == IF item.discount.type # "NONE"
                    THEN [item.discount EXCEPT
                            !.amount = DiscountAmount(item.discount, subtotal)]
                    ELSE item.discount
    IN  [item EXCEPT !.subtotal = subtotal,
                     !.discount = discount,
                     !.total = subtotal - discount.amount + item.tax]

RECURSIVE SumOver(_, _, _)
\* sum of f[x] over the elements x of the sequence s from position i on
SumOver(s, f, i) ==
    IF i > Len(s) THEN 0 ELSE f[i] + SumOver(s, f, i + 1)

DiscountStartStale(o) == o.discountTotal

\* let discountTotal = 0
DiscountStart(o) == 0

OrderDiscountBaseStacked(subtotal, discountTotal) == subtotal - discountTotal

\* The base of an order-level discount: this.subtotal.
OrderDiscountBase(subtotal, discountTotal) == subtotal

RECURSIVE LastCompleted(_, _)
LastCompleted(payments, i) ==
    IF i = 0 THEN 0
    ELSE IF payments[i].status = "COMPLETED" THEN payments[i].amount
    ELSE LastCompleted(payments, i - 1)

OrderPaidLast(o) == LastCompleted(o.payments, Len(o.payments))

\* this.payments.filter(p => p.status === PaymentStatus.COMPLETED)
\*     .reduce((sum, p) => sum + p.amount, 0)
OrderPaid(o) ==
    SumOver(o.payments,
            [i \in 1..Len(o.payments) |->
                IF o.payments[i].status = "COMPLETED"
                THEN o.payments[i].amount ELSE 0], 1)

\* OrderSchema.methods.calculateTotals
OrderCalculateTotals(o) ==
    LET items == [i \in 1..Len(o.items) |-> OrderItemTotals(o.items[i])]
        subtotal == SumOver(items, [i \in 1..Len(items) |-> items[i].subtotal], 1)
        totalQuantity ==
            SumOver(items, [i \in 1..Len(items) |-> items[i].quantity], 1)
        itemDiscounts == DiscountStart(o) +
            SumOver(items, [i \in 1..Len(items) |-> items[i].discount.amount], 1)
        taxTotal == SumOver(items, [i \in 1..Len(items) |-> items[i].tax], 1)
        discounts ==
            [i \in 1..Len(o.discounts) |->
                [o.discounts[i] EXCEPT !.amount =
                    DiscountAmount(o.discounts[i],
                                   OrderDiscountBase(subtotal, itemDiscounts))]]
        discountTotal == itemDiscounts +
            SumOver(discounts, [i \in 1..Len(discounts) |-> discounts[i].amount], 1)
        total == subtotal - discountTotal + taxTotal + o.shippingCost + o.handlingFee
        totalPaid == OrderPaid(o)
        balanceDue == total - totalPaid
    IN  [o EXCEPT !.items = items, !.discounts = discounts,
                  !.subtotal = subtotal, !.totalQuantity = totalQuantity,
                  !.totalItems = Len(items),
                  !.discountTotal = discountTotal, !.taxTotal = taxTotal,
                  !.total = total, !.totalPaid = totalPaid,
                  !.balanceDue = balanceDue,
                  !.paymentStatus =
                      IF balanceDue <= 0 THEN "COMPLETED"
                      ELSE IF totalPaid > 0 THEN "PARTIALLY_PAID"
                      ELSE o.paymentStatus]

ReturnDeadlineReset(o, t) ==
    IF o.returnEligible THEN t + ReturnDays ELSE o.returnDeadline

\* if (this.returnEligible && !this.returnDeadline) this.returnDeadline = ...
ReturnDeadline(o, t) ==
    IF o.returnEligible /\ o.returnDeadline = NoDate
    THEN t + ReturnDays ELSE o.returnDeadline

\* OrderSchema.pre('save') at time t: the totals of the document, the due
\* date (moved to t + paymentTerms days, which is not yet past) and the
\* return deadline.
OrderPreSaveAt(o, t) ==
    LET o2 == OrderCalculateTotals(o)
    IN  [o2 EXCEPT !.pastDue = IF o.paymentTerms > 0 THEN FALSE ELSE @,
                   !.returnDeadline = ReturnDeadline(o, t)]

\* The hook on the document in memory, at the current time.
OrderPreSave(o) == OrderPreSaveAt(o, now)

\* The validators of OrderSchema, run by save() before the pre('save')
\* hook on the document as the caller left it.
OrderValidate(o) ==
    /\ \A i \in 1..Len(o.items) :
          o.items[i].unitPrice >= 0 /\ o.items[i].quantity >= 1
    /\ o.totalItems >= 0 /\ o.totalQuantity >= 0
    /\ o.subtotal >= 0 /\ o.discountTotal >= 0 /\ o.taxTotal >= 0
    /\ o.shippingCost >= 0 /\ o.handlingFee >= 0
    /\ o.total >= 0 /\ o.totalPaid >= 0

\* InvoiceSchema defaults of a new document; totalInEuro is the fraction
\* num / den, den = 0 standing for a value never set.
NewInvoice ==
    [items |-> <<>>, discount |-> NoDiscount, payments |-> <<>>,
     shippingCost |-> 0, otherCharges |-> 0,
     currency |-> "EUR", exchangeRate |-> 0,
     subtotal |-> 0, totalTax |-> 0, total |-> 0,
     totalInEuro |-> [num |-> 0, den |-> 0],
     paidAmount |-> 0, outstandingAmount |-> 0,
     status |-> "DRAFT", pastDue |-> FALSE]

\* calculateTotals, the body of items.reduce for one invoice item.
InvoiceItemTotals(item) ==
    LET subtotal == item.quantity * item.unitPrice
        taxAmount == IF item.taxRate # 0 THEN Percent(subtotal, item.taxRate)
                     ELSE item.taxAmount
    IN  [item EXCEPT !.subtotal = subtotal, !.taxAmount = taxAmount,
                     !.total = subtotal + taxAmount]

\* this.payments?.reduce((sum, p) => sum + p.amount, 0) || 0
InvoicePaid(inv) ==
    SumOver(inv.payments, [i \in 1..Len(inv.payments) |-> inv.payments[i].amount], 1)

\* InvoiceSchema.methods.calculateTotals
InvoiceCalculateTotals(inv) ==
    LET items == [i \in 1..Len(inv.items) |-> InvoiceItemTotals(inv.items[i])]
        subtotal == SumOver(items, [i \in 1..Len(items) |-> items[i].subtotal], 1)
        totalTax == SumOver(items, [i \in 1..Len(items) |-> items[i].taxAmount], 1)
        discountAmount == IF inv.discount.type # "NONE"
                          THEN DiscountAmount(inv.discount, subtotal) ELSE 0
        discount == IF inv.discount.type # "NONE"
                    THEN [inv.discount EXCEPT !.amount = discountAmount]
                    ELSE inv.discount
        total == subtotal + totalTax - discountAmount
                 + inv.shippingCost + inv.otherCharges
        paidAmount == InvoicePaid(inv)
    IN  [inv EXCEPT !.items = items, !.subtotal = subtotal,
                    !.totalTax = totalTax, !.discount = discount,
                    !.total = total, !.paidAmount = paidAmount,
                    !.outstandingAmount = total - paidAmount,
                    !.totalInEuro =
                        IF inv.currency # "EUR" /\ inv.exchangeRate # 0
                        THEN [num |-> total, den |-> inv.exchangeRate]
                        ELSE IF inv.currency = "EUR"
                        THEN [num |-> total, den |-> 1]
                        ELSE inv.totalInEuro]

\* InvoiceSchema.pre('save'): the totals, then the status from the payment;
\* inv.pastDue stands for new Date() > this.dueDate.
InvoicePreSave(inv) ==
    LET i2 == InvoiceCalculateTotals(inv)
    IN  [i2 EXCEPT !.status =
            IF i2.outstandingAmount <= 0 THEN "PAID"
            ELSE IF i2.paidAmount > 0 THEN "PARTIALLY_PAID"
            ELSE IF i2.pastDue /\ i2.status # "CANCELLED" THEN "OVERDUE"
            ELSE i2.status]

\* The validators of InvoiceSchema, run by save() before the pre('save')
\* hook.
InvoiceValidate(inv) ==
    /\ \A i \in 1..Len(inv.items) :
          inv.items[i].quantity >= 0 /\ inv.items[i].unitPrice >= 0
    /\ \A i \in 1..Len(inv.payments) : inv.payments[i].amount >= 0
    /\ inv.subtotal >= 0 /\ inv.totalTax >= 0
    /\ inv.total >= 0 /\ inv.paidAmount >= 0

\* ------------------------------------------------- InventorySchema.ts
\* A Number field that holds no value; a quotient is kept as the fraction
\* num / den.
NoNumber == [num |-> 0, den |-> 0]
NoCost == -1

\* BatchSchema defaults of a new document; receivedQuantity 0 stands for
\* a quantity of 0 or never set, an absent cost component is 0.
NewBatch ==
    [status |-> "ORDERED", unit |-> "KG",
     purchasePrice |-> 0, shippingCost |-> 0, customsDuty |-> 0, otherCosts |-> 0,
     receivedQuantity |-> 0, totalCost |-> NoCost, costPerKg |-> NoNumber]

\* ExpenseSchema: amount, currency, expenseDate and the required
\* amountInEuro, which the caller has to supply before the first save.
NewExpense ==
    [amount |-> 0, currency |-> "EUR", expenseDate |-> 0,
     amountInEuro |-> [num |-> 0, den |-> 1]]

\* A caller that is not saving a new document.
NotCreating == [pc |-> "idle", count |-> 0, res |-> "none"]

\* No batch, expense, exchange rate or numbered document.
NoOthers ==
    /\ batch = NewBatch
    /\ expense = NewExpense
    /\ rates = {}
    /\ created = <<>>
    /\ creating = [c \in Callers |-> NotCreating]

\* No financial document is being worked on.
NoDocument ==
    /\ kind = "none"
    /\ order = NewOrder
    /\ invoice = NewInvoice
    /\ dirty = FALSE
    /\ edits = 0
    /\ now = 0
    /\ NoOthers

\* ------------------------------------------------------- ProductSchema.ts
\* quantity: default 1; reservedQuantity: default 0; availableQuantity:
\* written by the pre('save') hook of the first save.
NewProduct(n) == [quantity |-> n, reservedQuantity |-> 0, availableQuantity |-> n]

\* The schema validators of the three counters (min: 0), run by save()
\* before the pre('save') hooks on the document as the caller left it.
Validate(d) ==
    /\ d.quantity >= 0
    /\ d.reservedQuantity >= 0
    /\ d.availableQuantity >= 0

\* ProductSchema.methods.calculateAvailableQuantity
calculateAvailableQuantity(d) == d.quantity - d.reservedQuantity

\* ProductSchema.pre('save'): this.availableQuantity = quantity - reserved
PreSave(d) == [d EXCEPT !.availableQuantity = d.quantity - d.reservedQuantity]

Paths == {"quantity", "reservedQuantity", "availableQuantity"}

\* document.save() of a loaded document: $set of the paths whose value
\* differs from the loaded one; the other paths keep the stored value.
WriteModified(stored, loaded, d) ==
    [f \in Paths |-> IF d[f] # loaded[f] THEN d[f] ELSE stored[f]]

NoReq == [op |-> "none", prod |-> "p1", qty |-> 0, tok |-> 0]
NoDoc == NewProduct(0)
FreeToken == [state |-> "free", prod |-> "p1", qty |-> 0, age |-> 0]

InitProducts ==
    /\ db \in [Products -> {NewProduct(n) : n \in 1..MaxQty}]
    /\ pc = [c \in Procs |-> "idle"]
    /\ req = [c \in Procs |-> NoReq]
    /\ orig = [c \in Procs |-> NoDoc]
    /\ doc = [c \in Procs |-> NoDoc]
    /\ tokens = [t \in Tokens |-> FreeToken]
    /\ ret = "none"
    /\ nops = 0

\* Model.findById(r.prod), then the operation's change d of the loaded
\* document, which the caller holds until it saves.
Load(c, r, d) ==
    /\ pc[c] = "idle"
    /\ nops' = IF c \in Callers THEN nops + 1 ELSE nops
    /\ pc' = [pc EXCEPT ![c] = "dirty"]
    /\ req' = [req EXCEPT ![c] = r]
    /\ orig' = [orig EXCEPT ![c] = db[r.prod]]
    /\ doc' = [doc EXCEPT ![c] = d]
    /\ UNCHANGED <<db, tokens, ret>>
    /\ UNCHANGED fvars

\* reserve(productId, qty): fails with InsufficientStock unless the loaded
\* document has available >= qty; otherwise reserved += qty, to be saved.
BeginReserve(c, p, q) ==
    /\ nops < MaxOps
    /\ IF calculateAvailableQuantity(db[p]) >= q
       THEN Load(c, [op |-> "reserve", prod |-> p, qty |-> q, tok |-> 0],
                 [db[p] EXCEPT !.reservedQuantity = @ + q])
       ELSE /\ pc[c] = "idle"
            /\ nops' = nops + 1
            /\ ret' = "InsufficientStock"
            /\ UNCHANGED <<db, pc, req, orig, doc, tokens>>
            /\ UNCHANGED fvars

\* release(token): reserved -= qty of the token's product.
BeginRelease(c, t) ==
    /\ nops < MaxOps
    /\ tokens[t].state # "free"
    /\ LET p == tokens[t].prod
           q == tokens[t].qty
       IN  Load(c, [op |-> "release", prod |-> p, qty |-> q, tok |-> t],
                [db[p] EXCEPT !.reservedQuantity = @ - q])

\* commit(token): quantity -= qty, reserved -= qty.
BeginCommit(c, t) ==
    /\ nops < MaxOps
    /\ tokens[t].state # "free"
    /\ LET p == tokens[t].prod
           q == tokens[t].qty
       IN  Load(c, [op |-> "commit", prod |-> p, qty |-> q, tok |-> t],
                [db[p] EXCEPT !.quantity = @ - q, !.reservedQuantity = @ - q])

\* adjust(productId, delta, reason): direct correction of quantity.
BeginAdjust(c, p, delta) ==
    /\ nops < MaxOps
    /\ db[p].quantity + delta <= MaxQty
    /\ Load(c, [op |-> "adjust", prod |-> p, qty |-> delta, tok |-> 0],
            [db[p] EXCEPT !.quantity = @ + delta])

\* The next unused reservation token.
FreeTok == CHOOSE t \in Tokens :
    /\ tokens[t].state = "free"
    /\ \A u \in Tokens : tokens[u].state = "free" => t <= u

ReleasableAny(t) == tokens[t].state # "free"

\* A token can be released or committed only while it is held.
Releasable(t) == tokens[t].state = "held"

TokensAfter(r) ==
    CASE r.op = "reserve" ->
           [tokens EXCEPT ![FreeTok] =
               [state |-> "held", prod |-> r.prod, qty |-> r.qty, age |-> 0]]
      [] r.op = "release" ->
           [tokens EXCEPT ![r.tok] = [FreeToken EXCEPT !.state = "released"]]
      [] r.op = "commit" ->
           [tokens EXCEPT ![r.tok] = [FreeToken EXCEPT !.state = "committed"]]
      [] OTHER -> tokens

\* What save() of caller c's document returns in the current state.
SaveRet(c) ==
    IF req[c].op \in {"release", "commit"} /\ ~Releasable(req[c].tok)
    THEN (IF req[c].op = "release" THEN "noop" ELSE "rejected")
    ELSE IF ~Validate(doc[c]) THEN "ValidationError" ELSE "ok"

\* The stored document after save() of caller c's document.
SaveDoc(c) ==
    IF SaveRet(c) = "ok"
    THEN WriteModified(db[req[c].prod], orig[c], PreSave(doc[c]))
    ELSE db[req[c].prod]

PersistAll(p, d) == [x \in Products |-> d]

\* updateOne({_id: this._id}, {$set: ...}): one stored document changes.
Persist(p, d) == [db EXCEPT ![p] = d]

\* document.save(): the validators, then the pre('save') hook, then the
\* write of the changed paths.  Nothing is compared with the stored
\* document: the schema has no version check.
Save(c) ==
    /\ pc[c] = "dirty"
    /\ ret' = SaveRet(c)
    /\ db' = Persist(req[c].prod, SaveDoc(c))
    /\ tokens' = IF SaveRet(c) = "ok" THEN TokensAfter(req[c]) ELSE tokens
    /\ pc' = [pc EXCEPT ![c] = "idle"]
    /\ req' = [req EXCEPT ![c] = NoReq]
    /\ orig' = [orig EXCEPT ![c] = NoDoc]
    /\ doc' = [doc EXCEPT ![c] = NoDoc]
    /\ UNCHANGED nops
    /\ UNCHANGED fvars

Next ==
    \/ \E c \in Callers, p \in Products, q \in 1..MaxQty : BeginReserve(c, p, q)
    \/ \E c \in Callers, t \in Tokens : BeginRelease(c, t)
    \/ \E c \in Callers, t \in Tokens : BeginCommit(c, t)
    \/ \E c \in Callers, p \in Products, delta \in {-1, 1} : BeginAdjust(c, p, delta)
    \/ \E c \in Callers : Save(c)

Init == InitProducts /\ NoDocument

Spec == Init /\ [][Next]_vars

\* N callers that only reserve (the concurrent placement of orders).
NextRace ==
    \/ \E c \in Callers, p \in Products, q \in 1..MaxQty : BeginReserve(c, p, q)
    \/ \E c \in Callers : Save(c)

SpecRace == Init /\ [][NextRace]_vars

\* The clock of the reservation timeout: every held reservation ages.
Tick ==
    /\ \E t \in Tokens : tokens[t].state = "held" /\ tokens[t].age < ReserveTimeout
    /\ tokens' = [t \in Tokens |->
                    IF tokens[t].state = "held" /\ tokens[t].age < ReserveTimeout
                    THEN [tokens[t] EXCEPT !.age = @ + 1] ELSE tokens[t]]
    /\ UNCHANGED <<db, pc, req, orig, doc, ret, nops>>
    /\ UNCHANGED fvars

\* The background sweep: the release of a reservation that is still held
\* after the timeout.
SweepBegin(t) ==
    /\ tokens[t].state = "held"
    /\ tokens[t].age >= ReserveTimeout
    /\ LET p == tokens[t].prod
           q == tokens[t].qty
       IN  Load(Sweeper, [op |-> "release", prod |-> p, qty |-> q, tok |-> t],
                [db[p] EXCEPT !.reservedQuantity = @ - q])

SweepStep == (\E t \in Tokens : SweepBegin(t)) \/ Save(Sweeper)

NextSweep ==
    \/ \E c \in Callers, p \in Products, q \in 1..MaxQty : BeginReserve(c, p, q)
    \/ \E c \in Callers, t \in Tokens : BeginRelease(c, t)
    \/ \E c \in Callers, t \in Tokens : BeginCommit(c, t)
    \/ \E c \in Callers : Save(c)
    \/ Tick
    \/ \E t \in Tokens : SweepBegin(t)
    \/ Save(Sweeper)

\* The sweep and the clock keep running and a caller that loaded a
\* document saves it.
SpecSweep ==
    /\ Init
    /\ [][NextSweep]_vars
    /\ WF_vars(Tick)
    /\ WF_vars(SweepStep)
    /\ \A c \in Callers : WF_vars(Save(c))

\* ------------------------------------------------------ claims, Product
\* The step in which caller c's operation op finishes (its save returns).
Finishes(c, op) == pc[c] = "dirty" /\ req[c].op = op /\ pc'[c] = "idle"

RECURSIVE HeldSum(_, _)
\* The units of product p held by the reservation tokens 1..n.
HeldSum(p, n) ==
    IF n = 0 THEN 0
    ELSE HeldSum(p, n - 1) +
         (IF tokens[n].state = "held" /\ tokens[n].prod = p THEN tokens[n].qty ELSE 0)

\* C1: every stored product has availableQuantity = quantity -
\* reservedQuantity and 0 <= reservedQuantity <= quantity.
C1_CounterInvariant ==
    \A p \in Products :
        /\ db[p].availableQuantity = db[p].quantity - db[p].reservedQuantity
        /\ 0 <= db[p].reservedQuantity
        /\ db[p].reservedQuantity <= db[p].quantity

\* C2: when callers reserve concurrently against a product whose available
\* quantity is K (its quantity, nothing being reserved at the start), the
\* successful reservations sum to at most K in every interleaving.
C2_NoOversell ==
    \A p \in Products : HeldSum(p, MaxOps) <= db[p].quantity

\* C3: a reserve succeeds only if available >= qty when it updates the
\* product, and then reserved grows by exactly qty and available shrinks by
\* exactly qty; a reserve that fails leaves the three counters unchanged.
C3_ReserveCheckAndUpdate ==
    [][\A c \in Callers : Finishes(c, "reserve") =>
          LET p == req[c].prod
              q == req[c].qty
          IN  IF ret' = "ok"
              THEN /\ db[p].availableQuantity >= q
                   /\ db'[p].reservedQuantity = db[p].reservedQuantity + q
                   /\ db'[p].availableQuantity = db[p].availableQuantity - q
                   /\ db'[p].quantity = db[p].quantity
              ELSE db' = db]_vars

\* C4: the release of a held reservation of size q undoes it: reserved
\* shrinks by q, available grows by q and quantity is unchanged, whatever
\* other reservations were made on the product in between.
C4_ReleaseRestores ==
    [][\A c \in Callers : (Finishes(c, "release") /\ ret' = "ok") =>
          LET p == req[c].prod
              q == req[c].qty
          IN  /\ db'[p].reservedQuantity = db[p].reservedQuantity - q
              /\ db'[p].availableQuantity = db[p].availableQuantity + q
              /\ db'[p].quantity = db[p].quantity]_vars

C6_CommitDeducts ==
    [][/\ \A c \in Callers : (Finishes(c, "commit") /\ ret' = "ok") =>
             LET p == req[c].prod
                 q == req[c].qty
             IN  /\ db'[p].quantity = db[p].quantity - q
                 /\ db'[p].reservedQuantity = db[p].reservedQuantity - q
                 /\ db'[p].availableQuantity = db[p].availableQuantity
       /\ \A t \in Tokens : tokens[t].state = "committed" => tokens'[t] = tokens[t]
      ]_vars

\* C7: every reservation that its caller neither commits nor releases is
\* eventually released by the sweep: no token stays held forever.
C7_AbandonedReleased ==
    \A t \in Tokens : (tokens[t].state = "held") ~> (tokens[t].state # "held")

\* C8: an operation on product p changes no counter of another product,
\* and a step on another product changes neither the outcome nor the
\* effect of a pending operation on p.
C8_OtherProductsUntouched ==
    [][/\ \A p \in Products : db'[p] # db[p] =>
             \E c \in Callers : pc[c] = "dirty" /\ pc'[c] = "idle" /\ req[c].prod = p
       /\ \A c, c2 \in Callers :
             (/\ pc[c] = "dirty" /\ pc'[c] = "dirty"
              /\ pc[c2] = "dirty" /\ pc'[c2] = "idle"
              /\ req[c2].prod # req[c].prod)
             => (SaveRet(c)' = SaveRet(c) /\ SaveDoc(c)' = SaveDoc(c))
      ]_vars

C8_Witness ==
    \E c, c2 \in Callers :
        /\ pc[c] = "dirty" /\ pc[c2] = "idle" /\ ret = "ok"
        /\ \E p \in Products : p # req[c].prod /\ db[p].reservedQuantity > 0

\* --------------------------------------------- financial documents, steps
NoProducts ==
    /\ db = [p \in Products |-> NewProduct(1)]
    /\ pc = [c \in Procs |-> "idle"]
    /\ req = [c \in Procs |-> NoReq]
    /\ orig = [c \in Procs |-> NoDoc]
    /\ doc = [c \in Procs |-> NoDoc]
    /\ tokens = [t \in Tokens |-> FreeToken]
    /\ ret = "none"
    /\ nops = 0

\* A new order or a new invoice, not yet saved.
InitDocs ==
    /\ NoProducts
    /\ kind \in {"order", "invoice"}
    /\ order = NewOrder
    /\ invoice = NewInvoice
    /\ dirty = TRUE
    /\ edits = 0
    /\ now = 0
    /\ NoOthers

\* A caller's change o2 of the order in memory.
EditOrder(o2) ==
    /\ kind = "order"
    /\ edits < MaxEdits
    /\ edits' = edits + 1
    /\ order' = o2
    /\ dirty' = TRUE
    /\ UNCHANGED <<kind, invoice, now, xvars>>
    /\ UNCHANGED pvars

AddOrderItem(up, q, d, tax) ==
    /\ Len(order.items) < MaxItems
    /\ EditOrder([order EXCEPT !.items = Append(@,
           [unitPrice |-> up, quantity |-> q, subtotal |-> 0,
            discount |-> d, tax |-> tax, total |-> 0])])

SetOrderItemDiscount(i, d) ==
    /\ i \in 1..Len(order.items)
    /\ order.items[i].discount # d
    /\ EditOrder([order EXCEPT !.items[i].discount = d])

AddOrderDiscount(d) ==
    /\ Len(order.discounts) < MaxDiscounts
    /\ EditOrder([order EXCEPT !.discounts = Append(@, d)])

RemoveOrderDiscount ==
    /\ Len(order.discounts) > 0
    /\ EditOrder([order EXCEPT !.discounts = SubSeq(@, 1, Len(@) - 1)])

SetOrderCharges(ship, fee) ==
    /\ <<ship, fee>> # <<order.shippingCost, order.handlingFee>>
    /\ EditOrder([order EXCEPT !.shippingCost = ship, !.handlingFee = fee])

AddOrderPayment(st, amount) ==
    /\ Len(order.payments) < MaxPayments
    /\ EditOrder([order EXCEPT !.payments = Append(@,
           [status |-> st, amount |-> amount])])

SetOrderPaymentStatus(i, st) ==
    /\ i \in 1..Len(order.payments)
    /\ order.payments[i].status # st
    /\ EditOrder([order EXCEPT !.payments[i].status = st])

\* Time passes the due date, or the caller moves the due date.
SetOrderPastDue(b) ==
    /\ order.pastDue # b
    /\ EditOrder([order EXCEPT !.pastDue = b])

\* paymentMethod INVOICE with payment terms of n days (0: another method).
SetOrderPaymentTerms(n) ==
    /\ order.paymentTerms # n
    /\ EditOrder([order EXCEPT !.paymentTerms = n])

\* order.save(): the validators, then the pre('save') hook; a document
\* that fails validation is rejected and nothing is written.
SaveOrder ==
    /\ kind = "order"
    /\ OrderValidate(order)
    /\ order' = OrderPreSave(order)
    /\ dirty' = FALSE
    /\ UNCHANGED <<kind, invoice, edits, now, xvars>>
    /\ UNCHANGED pvars

\* A caller's change i2 of the invoice in memory.
EditInvoice(i2) ==
    /\ kind = "invoice"
    /\ edits < MaxEdits
    /\ edits' = edits + 1
    /\ invoice' = i2
    /\ dirty' = TRUE
    /\ UNCHANGED <<kind, order, now, xvars>>
    /\ UNCHANGED pvars

AddInvoiceItem(q, up, rate) ==
    /\ Len(invoice.items) < MaxItems
    /\ EditInvoice([invoice EXCEPT !.items = Append(@,
           [quantity |-> q, unitPrice |-> up, subtotal |-> 0,
            taxRate |-> rate, taxAmount |-> 0, total |-> 0])])

SetInvoiceItemTaxRate(i, rate) ==
    /\ i \in 1..Len(invoice.items)
    /\ invoice.items[i].taxRate # rate
    /\ EditInvoice([invoice EXCEPT !.items[i].taxRate = rate])

SetInvoiceDiscount(d) ==
    /\ invoice.discount # d
    /\ EditInvoice([invoice EXCEPT !.discount = d])

SetInvoiceCharges(ship, other) ==
    /\ <<ship, other>> # <<invoice.shippingCost, invoice.otherCharges>>
    /\ EditInvoice([invoice EXCEPT !.shippingCost = ship, !.otherCharges = other])

AddInvoicePayment(amount) ==
    /\ Len(invoice.payments) < MaxPayments
    /\ EditInvoice([invoice EXCEPT !.payments = Append(@, [amount |-> amount])])

SetInvoiceCurrency(cur, rate) ==
    /\ <<cur, rate>> # <<invoice.currency, invoice.exchangeRate>>
    /\ EditInvoice([invoice EXCEPT !.currency = cur, !.exchangeRate = rate])

SetInvoiceStatus(st) ==
    /\ invoice.status # st
    /\ EditInvoice([invoice EXCEPT !.status = st])

\* Time passes the due date, or the due date is moved.
SetInvoicePastDue(b) ==
    /\ invoice.pastDue # b
    /\ EditInvoice([invoice EXCEPT !.pastDue = b])

\* invoice.save(): the validators, then the pre('save') hook.
SaveInvoice ==
    /\ kind = "invoice"
    /\ InvoiceValidate(invoice)
    /\ invoice' = InvoicePreSave(invoice)
    /\ dirty' = FALSE
    /\ UNCHANGED <<kind, order, edits, now, xvars>>
    /\ UNCHANGED pvars

PaymentStatuses == {"PENDING", "COMPLETED", "FAILED", "REFUNDED"}
PaymentTerms == {0, 30}

NextDocs ==
    \/ \E up \in UnitPrices, q \in Quantities,
          d \in OrderDiscountInputs \cup {NoDiscount}, tax \in ItemTaxes :
          AddOrderItem(up, q, d, tax)
    \/ \E i \in 1..MaxItems, d \in OrderDiscountInputs \cup {NoDiscount} :
          SetOrderItemDiscount(i, d)
    \/ \E d \in OrderDiscountInputs : AddOrderDiscount(d)
    \/ RemoveOrderDiscount
    \/ \E ship \in ShippingCosts, fee \in Fees : SetOrderCharges(ship, fee)
    \/ \E st \in PaymentStatuses, a \in PaymentAmounts : AddOrderPayment(st, a)
    \/ \E i \in 1..MaxPayments, st \in PaymentStatuses : SetOrderPaymentStatus(i, st)
    \/ SaveOrder
    \/ \E q \in Quantities, up \in UnitPrices, r \in TaxRates : AddInvoiceItem(q, up, r)
    \/ \E i \in 1..MaxItems, r \in TaxRates : SetInvoiceItemTaxRate(i, r)
    \/ \E d \in InvoiceDiscountInputs \cup {NoDiscount} : SetInvoiceDiscount(d)
    \/ \E ship \in ShippingCosts, other \in Fees : SetInvoiceCharges(ship, other)
    \/ \E a \in PaymentAmounts : AddInvoicePayment(a)
    \/ \E cur \in {"EUR", "USD"}, r \in ExchangeRates : SetInvoiceCurrency(cur, r)
    \/ \E st \in {"SENT", "CANCELLED", "REFUNDED"} : SetInvoiceStatus(st)
    \/ \E b \in BOOLEAN : SetInvoicePastDue(b)
    \/ SaveInvoice

SpecDocs == InitDocs /\ [][NextDocs]_vars

\* ------------------------------------------ claims, financial documents
\* C9: recomputing is idempotent: on an order or invoice that was saved
\* and not changed since, the pre('save') hook with calculateTotals changes
\* no field (item subtotals and totals, subtotal, discount total, tax total,
\* total, paid amount, balance, payment status).
C9_RecomputeIdempotent ==
    ~dirty =>
        /\ kind = "order" => OrderPreSave(order) = order
        /\ kind = "invoice" => InvoicePreSave(invoice) = invoice

C9_Witness ==
    /\ ~dirty
    /\ kind = "order"
    /\ Len(order.items) > 0
    /\ Len(order.discounts) > 0
    /\ order.discountTotal > 0
    /\ order.totalPaid > 0

\* The amount of the order-level discount d on the sum of item subtotals.
OrderLevelAmount(d, subtotals) ==
    IF d.type = "PERCENTAGE" THEN (subtotals * d.value) \div 100 ELSE d.value

\* The discount amount of an order item, from its inputs.
ItemLevelAmount(item) ==
    CASE item.discount.type = "NONE" -> 0
      [] item.discount.type = "PERCENTAGE" ->
            (item.unitPrice * item.quantity * item.discount.value) \div 100
      [] OTHER -> item.discount.value

\* C10: after a recompute of an order, total = sum of item subtotals - sum
\* of item discount amounts - sum of order-level discount amounts + sum of
\* item tax + shippingCost + handlingFee, each order-level amount being
\* taken on the sum of item subtotals.
C10_OrderTotalFormula ==
    (kind = "order" /\ ~dirty) =>
        LET n == Len(order.items)
            m == Len(order.discounts)
            subtotals == SumOver(order.items,
                [i \in 1..n |-> order.items[i].unitPrice * order.items[i].quantity], 1)
            itemDisc == SumOver(order.items,
                [i \in 1..n |-> ItemLevelAmount(order.items[i])], 1)
            orderDisc == SumOver(order.discounts,
                [j \in 1..m |-> OrderLevelAmount(order.discounts[j], subtotals)], 1)
            tax == SumOver(order.items, [i \in 1..n |-> order.items[i].tax], 1)
        IN  /\ order.total = subtotals - itemDisc - orderDisc + tax
                             + order.shippingCost + order.handlingFee
            /\ \A j \in 1..m :
                  order.discounts[j].amount =
                      OrderLevelAmount(order.discounts[j], subtotals)

\* Subtotal 100, an order-level FIXED discount of 10 and shipping 5: 95.
C10_Witness ==
    /\ kind = "order"
    /\ ~dirty
    /\ order.subtotal = 100
    /\ Len(order.discounts) = 1
    /\ order.discounts[1].type = "FIXED_AMOUNT"
    /\ order.discounts[1].value = 10
    /\ order.shippingCost = 5
    /\ order.total = 95

\* ------------------------------------------------- the payment ledger
\* Items without discounts, payment events, the due date and saves.
\* InvoiceSchema.methods.markAsPaid: three assignments on the document in
\* memory; the caller saves afterwards.
MarkAsPaid ==
    EditInvoice([invoice EXCEPT !.paidAmount = invoice.total,
                                !.outstandingAmount = 0,
                                !.status = "PAID"])

NextLedger ==
    \/ \E up \in UnitPrices, q \in Quantities : AddOrderItem(up, q, NoDiscount, 0)
    \/ \E st \in PaymentStatuses, a \in PaymentAmounts : AddOrderPayment(st, a)
    \/ \E i \in 1..MaxPayments, st \in PaymentStatuses : SetOrderPaymentStatus(i, st)
    \/ \E b \in BOOLEAN : SetOrderPastDue(b)
    \/ \E n \in PaymentTerms : SetOrderPaymentTerms(n)
    \/ SaveOrder
    \/ \E q \in Quantities, up \in UnitPrices : AddInvoiceItem(q, up, 0)
    \/ \E a \in PaymentAmounts : AddInvoicePayment(a)
    \/ MarkAsPaid
    \/ SaveInvoice

SpecLedger == InitDocs /\ [][NextLedger]_vars

\* ------------------------------------------------- claims, payments
\* The amount refunded by the REFUNDED events of a payment list: a refund
\* counts when the list holds a COMPLETED event it can be a refund of.
RefundedAmount(payments) ==
    SumOver(payments,
            [i \in 1..Len(payments) |->
                IF /\ payments[i].status = "REFUNDED"
                   /\ \E j \in 1..Len(payments) :
                         /\ payments[j].status = "COMPLETED"
                         /\ payments[j].amount >= payments[i].amount
                THEN payments[i].amount ELSE 0], 1)

CompletedAmount(payments) ==
    SumOver(payments,
            [i \in 1..Len(payments) |->
                IF payments[i].status = "COMPLETED"
                THEN payments[i].amount ELSE 0], 1)

\* C13: after a recompute the paid amount is the sum of the COMPLETED
\* events minus the amounts refunded on completed events, PENDING and
\* FAILED events contribute nothing, and the balance due is total - paid
\* (order: totalPaid / balanceDue; invoice: paidAmount / outstandingAmount,
\* every recorded invoice payment being a completed one).
C13_PaidAmount ==
    ~dirty =>
        /\ kind = "order" =>
            /\ order.totalPaid = CompletedAmount(order.payments)
                                  - RefundedAmount(order.payments)
            /\ order.balanceDue = order.total - order.totalPaid
        /\ kind = "invoice" =>
            /\ invoice.paidAmount =
                  SumOver(invoice.payments,
                          [i \in 1..Len(invoice.payments) |->
                              invoice.payments[i].amount], 1)
            /\ invoice.outstandingAmount = invoice.total - invoice.paidAmount

RECURSIVE ApplyArrivals(_, _, _)
\* The order after the events evs[i], evs[i+1], ... arrived one at a time,
\* each followed by a recompute.
ApplyArrivals(o, evs, i) ==
    IF i > Len(evs) THEN o
    ELSE ApplyArrivals(
            OrderCalculateTotals([o EXCEPT !.payments = Append(@, evs[i])]),
            evs, i + 1)

LedgerResult(o) == <<o.totalPaid, o.balanceDue, o.paymentStatus>>

Rearrangements(n) ==
    {f \in [1..n -> 1..n] : \A a, b \in 1..n : f[a] = f[b] => a = b}

C15_PaymentStatusDerived ==
    (kind = "order" /\ ~dirty) =>
        order.paymentStatus =
            IF order.balanceDue <= 0 THEN "COMPLETED"
            ELSE IF 0 < order.totalPaid /\ order.totalPaid < order.total
                 THEN "PARTIALLY_PAID"
            ELSE IF order.totalPaid = 0 /\ order.pastDue THEN "OVERDUE"
            ELSE "PENDING"

\* C20: CANCELLED and REFUNDED are terminal for an invoice: a save of an
\* invoice whose status is CANCELLED or REFUNDED leaves the status as it is.
C20_InvoiceTerminal ==
    [][(/\ kind = "invoice"
        /\ invoice.status \in {"CANCELLED", "REFUNDED"}
        /\ dirty /\ ~dirty')
       => invoice'.status = invoice.status]_vars

\* C21: in every saved state an invoice has status OVERDUE only if nothing
\* has been paid and the due date has passed; once the due date is moved to
\* the future or a payment is recorded, the next save leaves no OVERDUE.
C21_OverdueOverlay ==
    (kind = "invoice" /\ ~dirty /\ invoice.status = "OVERDUE")
        => (invoice.paidAmount = 0 /\ invoice.pastDue)

\* C28: after every recompute the derived fields of each line item are the
\* values computed from the item's current inputs, and the document's tax
\* and discount totals are the sums of those values: a tax rate or a
\* discount that was set and then removed or set to 0 contributes 0.
C28_DerivedItemFields ==
    /\ (kind = "order" /\ ~dirty) =>
          /\ \A i \in 1..Len(order.items) :
                LET item == order.items[i]
                    subtotal == item.unitPrice * item.quantity
                    amount == IF item.discount.type = "NONE" THEN 0
                              ELSE DiscountAmount(item.discount, subtotal)
                IN  /\ item.subtotal = subtotal
                    /\ item.discount.amount = amount
                    /\ item.total = subtotal - amount + item.tax
          /\ order.taxTotal =
                SumOver(order.items,
                        [i \in 1..Len(order.items) |-> order.items[i].tax], 1)
    /\ (kind = "invoice" /\ ~dirty) =>
          /\ \A i \in 1..Len(invoice.items) :
                LET item == invoice.items[i]
                    subtotal == item.quantity * item.unitPrice
                    taxAmount == Percent(subtotal, item.taxRate)
                IN  /\ item.subtotal = subtotal
                    /\ item.taxAmount = taxAmount
                    /\ item.total = subtotal + taxAmount
          /\ invoice.totalTax =
                SumOver(invoice.items,
                        [i \in 1..Len(invoice.items) |->
                            Percent(invoice.items[i].quantity
                                      * invoice.items[i].unitPrice,
                                    invoice.items[i].taxRate)], 1)

\* C29: in every saved state of an invoice, whatever markAsPaid calls,
\* payments, item changes and saves came before, paidAmount is the sum of
\* the payments, outstandingAmount is total - paidAmount, and a status of
\* PAID implies that nothing is outstanding.
C29_MarkAsPaidConsistent ==
    (kind = "invoice" /\ ~dirty) =>
        /\ invoice.paidAmount = InvoicePaid(invoice)
        /\ invoice.outstandingAmount = invoice.total - invoice.paidAmount
        /\ invoice.status = "PAID" => invoice.outstandingAmount <= 0

\* --------------------------------------------- line items, edge inputs
\* A line item as handed to the calculation: unit price, quantity, an
\* optional discount and a tax rate, with values outside the valid ranges
\* and a fixed discount larger than a subtotal.
LineUnitPrices == {-50, 50}
LineQuantities == {-1, 0, 1, 2}
LargeFixedValues == {60}
LineDiscounts ==
    {NoDiscount} \cup OrderDiscountInputs
    \cup {[type |-> "FIXED_AMOUNT", value |-> v, amount |-> 0] : v \in LargeFixedValues}
LineItemInputs ==
    [unitPrice : LineUnitPrices, quantity : LineQuantities,
     discount : LineDiscounts, taxRate : TaxRates]

\* The order item the schema keeps of a line item: OrderSchema items have
\* unitPrice, quantity, discount and a tax amount, and no tax rate.
AddOrderLineItem(li) ==
    AddOrderItem(li.unitPrice, li.quantity, li.discount, 0)

\* The invoice item the schema keeps of a line item: InvoiceSchema items
\* have quantity, unitPrice and taxRate, and no discount.
AddInvoiceLineItem(li) ==
    AddInvoiceItem(li.quantity, li.unitPrice, li.taxRate)

NextEdge ==
    \/ \E li \in LineItemInputs : AddOrderLineItem(li)
    \/ \E li \in LineItemInputs : AddInvoiceLineItem(li)
    \/ \E d \in LineDiscounts \ {NoDiscount} : AddOrderDiscount(d)
    \/ \E d \in InvoiceDiscountInputs
               \cup {[type |-> "FIXED", value |-> v, amount |-> 0] :
                        v \in LargeFixedValues} : SetInvoiceDiscount(d)
    \/ SaveOrder
    \/ SaveInvoice

SpecEdge == InitDocs /\ [][NextEdge]_vars

Min(a, b) == IF a <= b THEN a ELSE b

IsFixed(d) == d.type \in {"FIXED_AMOUNT", "FIXED"}

\* C11: after a recompute, the amount of every FIXED discount (on an item,
\* on the order, on the invoice) is min(value, subtotal), and no item total
\* and no order or invoice total is negative.
C11_FixedDiscountCapped ==
    ~dirty =>
        /\ kind = "order" =>
            /\ \A i \in 1..Len(order.items) :
                  /\ order.items[i].total >= 0
                  /\ IsFixed(order.items[i].discount) =>
                        order.items[i].discount.amount =
                            Min(order.items[i].discount.value,
                                order.items[i].subtotal)
            /\ \A j \in 1..Len(order.discounts) :
                  IsFixed(order.discounts[j]) =>
                      order.discounts[j].amount =
                          Min(order.discounts[j].value, order.subtotal)
            /\ order.total >= 0
        /\ kind = "invoice" =>
            /\ \A i \in 1..Len(invoice.items) : invoice.items[i].total >= 0
            /\ IsFixed(invoice.discount) =>
                  invoice.discount.amount =
                      Min(invoice.discount.value, invoice.subtotal)
            /\ invoice.total >= 0

\* The discount amount of a line item as specified.
LineDiscountAmount(li) ==
    LET subtotal == li.unitPrice * li.quantity
    IN  CASE li.discount.type = "PERCENTAGE" ->
                (subtotal * li.discount.value) \div 100
          [] IsFixed(li.discount) -> Min(li.discount.value, subtotal)
          [] OTHER -> 0

\* The tax amount of a line item as specified: on the discounted subtotal.
LineTaxAmount(li) ==
    ((li.unitPrice * li.quantity - LineDiscountAmount(li)) * li.taxRate) \div 100

\* C12: for every line item li and the item a saved order or invoice holds
\* of it, the item's tax amount is (subtotal - discountAmount) * taxRate/100
\* and its total is subtotal - discountAmount + taxAmount.
C12_TaxAfterDiscount ==
    ~dirty =>
        \A li \in LineItemInputs :
            LET subtotal == li.unitPrice * li.quantity
                total == subtotal - LineDiscountAmount(li) + LineTaxAmount(li)
            IN  /\ kind = "order" =>
                    \A i \in 1..Len(order.items) :
                        (/\ order.items[i].unitPrice = li.unitPrice
                         /\ order.items[i].quantity = li.quantity
                         /\ order.items[i].discount.type = li.discount.type
                         /\ order.items[i].discount.value = li.discount.value)
                        => /\ order.items[i].tax = LineTaxAmount(li)
                           /\ order.items[i].total = total
                /\ kind = "invoice" =>
                    \A i \in 1..Len(invoice.items) :
                        (/\ invoice.items[i].unitPrice = li.unitPrice
                         /\ invoice.items[i].quantity = li.quantity
                         /\ invoice.items[i].taxRate = li.taxRate)
                        => /\ invoice.items[i].taxAmount = LineTaxAmount(li)
                           /\ invoice.items[i].total = total

\* C16: a line item whose quantity is not positive or whose unit price is
\* negative is never persisted: every item of a saved order or invoice has
\* quantity >= 1 and unitPrice >= 0.
C16_InvalidLineItemRejected ==
    ~dirty =>
        /\ kind = "order" =>
            \A i \in 1..Len(order.items) :
                order.items[i].quantity >= 1 /\ order.items[i].unitPrice >= 0
        /\ kind = "invoice" =>
            \A i \in 1..Len(invoice.items) :
                invoice.items[i].quantity >= 1 /\ invoice.items[i].unitPrice >= 0

\* ------------------------------------------------ the order life cycle
\* The clock advances TickDays at a time up to MaxNow.
TickDays == 7
MaxNow == 21

\* OrderSchema.methods.canBeCancelled
canBeCancelled(o) ==
    o.status \notin {"SHIPPED", "DELIVERED", "COMPLETED", "CANCELLED", "RETURNED"}

\* OrderSchema.methods.canBeReturned at time t
canBeReturned(o, t) ==
    /\ o.returnEligible
    /\ o.status = "DELIVERED"
    /\ o.returnDeadline # NoDate
    /\ t <= o.returnDeadline

\* The path of an order's status.
StatusPath ==
    <<"DRAFT", "PENDING_PAYMENT", "PAYMENT_RECEIVED", "PROCESSING", "PACKED",
      "SHIPPED", "DELIVERED", "COMPLETED">>

PathIndex(st) == CHOOSE i \in 1..Len(StatusPath) : StatusPath[i] = st

OnPath(st) == \E i \in 1..Len(StatusPath) : StatusPath[i] = st

\* A status operation on the order: the outcome r and, when the status
\* changes to st, the save of the order with its pre('save') hook.
StatusStep(r, changed, st) ==
    /\ kind = "order"
    /\ ret' = r
    /\ IF changed
       THEN /\ OrderValidate(order)
            /\ order' = OrderPreSave([order EXCEPT !.status = st])
            /\ dirty' = FALSE
       ELSE UNCHANGED <<order, dirty>>
    /\ UNCHANGED <<kind, invoice, edits, now, xvars>>
    /\ UNCHANGED <<db, pc, req, orig, doc, tokens, nops>>

\* An external event (payment completed, packed, shipped, delivered, ...)
\* moves the order one step along the path.
AdvanceOrder ==
    IF OnPath(order.status) /\ PathIndex(order.status) < Len(StatusPath)
    THEN StatusStep("ok", TRUE, StatusPath[PathIndex(order.status) + 1])
    ELSE StatusStep("IllegalTransition", FALSE, order.status)

\* cancelOrder(orderId) -> Order | IllegalTransition
CancelOrder ==
    IF canBeCancelled(order)
    THEN StatusStep("ok", TRUE, "CANCELLED")
    ELSE StatusStep("IllegalTransition", FALSE, order.status)

\* The order is returned, or refunded: st is RETURNED or REFUNDED.
ReturnOrder(st) ==
    IF canBeReturned(order, now)
    THEN StatusStep("ok", TRUE, st)
    ELSE StatusStep("IllegalTransition", FALSE, order.status)

SetReturnEligible(b) ==
    /\ order.returnEligible # b
    /\ EditOrder([order EXCEPT !.returnEligible = b])

ClockTick ==
    /\ now + TickDays <= MaxNow
    /\ now' = now + TickDays
    /\ UNCHANGED <<kind, order, invoice, dirty, edits, xvars>>
    /\ UNCHANGED pvars

InitStatus == InitDocs /\ kind = "order"

NextStatus ==
    \/ AdvanceOrder
    \/ CancelOrder
    \/ \E st \in {"RETURNED", "REFUNDED"} : ReturnOrder(st)
    \/ \E b \in BOOLEAN : SetReturnEligible(b)
    \/ SaveOrder
    \/ ClockTick

SpecStatus == InitStatus /\ [][NextStatus]_vars

BeforeShipped ==
    {"DRAFT", "PENDING_PAYMENT", "PAYMENT_RECEIVED", "PROCESSING", "PACKED",
     "READY_FOR_PICKUP"}

\* C17: canBeCancelled is true only for the statuses before SHIPPED; an
\* order becomes CANCELLED only from such a status; a cancelOrder in any
\* other status is rejected with IllegalTransition and leaves the order
\* unchanged.
C17_CancelOnlyBeforeShipped ==
    [][/\ canBeCancelled(order) => order.status \in BeforeShipped
       /\ (order'.status = "CANCELLED" /\ order.status # "CANCELLED")
             => order.status \in BeforeShipped
       /\ (ret' = "IllegalTransition" /\ UNCHANGED <<edits, dirty, now>>)
             => order' = order]_vars

TerminalStatuses == {"COMPLETED", "CANCELLED", "REFUNDED"}

\* C18: the status of an order changes only by one step along the path
\* DRAFT -> ... -> COMPLETED, by cancellation, or by a return or refund of
\* a delivered order; once it is COMPLETED, CANCELLED or REFUNDED it never
\* changes again.
C18_StatusPath ==
    [][order'.status # order.status =>
          /\ order.status \notin TerminalStatuses
          /\ \/ /\ OnPath(order.status) /\ OnPath(order'.status)
                /\ PathIndex(order'.status) = PathIndex(order.status) + 1
             \/ order'.status = "CANCELLED"
             \/ /\ order.status = "DELIVERED"
                /\ order'.status \in {"RETURNED", "REFUNDED"}]_vars

\* C19: the status becomes RETURNED or REFUNDED only when the order is
\* return-eligible, DELIVERED and the time is not after returnDeadline; a
\* returnDeadline that is set is never changed by a later save.
C19_ReturnWindow ==
    [][/\ (order'.status \in {"RETURNED", "REFUNDED"}
           /\ order'.status # order.status)
             => /\ order.returnEligible
                /\ order.status = "DELIVERED"
                /\ order.returnDeadline # NoDate
                /\ now <= order.returnDeadline
       /\ order.returnDeadline # NoDate
             => order'.returnDeadline = order.returnDeadline]_vars

\* An order whose return deadline was set by a save at a later time than
\* its creation was delivered, saved again on the way, and returned.
C19_Witness ==
    /\ kind = "order"
    /\ order.status = "RETURNED"
    /\ ret = "ok"
    /\ order.returnDeadline = TickDays + ReturnDays
    /\ now > TickDays


\* ------------------------------------------------------------ batches
\* The values the steps below choose from.
BatchUnits == {"KG", "PIECES"}
BatchPrices == {0, 1000}
BatchShippingCosts == {0, 100}
BatchCustomsDuties == {0, 50}
BatchQuantities == {0, 500}

\* enum BatchStatus
BatchStatuses ==
    {"ORDERED", "IN_TRANSIT", "RECEIVED", "IN_SORTING", "SORTED",
     "PARTIALLY_SORTED", "IN_STORAGE", "COMPLETED", "CANCELLED"}

\* The validators of BatchSchema, run by save() before the pre('save') hook.
BatchValidate(b) ==
    /\ b.status \in BatchStatuses
    /\ b.unit \in {"KG", "PIECES", "BALES", "CONTAINERS"}
    /\ b.purchasePrice >= 0
    /\ b.receivedQuantity >= 0

\* BatchSchema.pre('save'), the cost block: totalCost only when
\* purchasePrice is truthy, costPerKg only when receivedQuantity is truthy
\* and the unit is KG. The sorting-productivity block of the hook writes
\* fields that are not part of this state.
BatchPreSave(b) ==
    LET totalCost == b.purchasePrice + b.shippingCost + b.customsDuty
                     + b.otherCosts
    IN  IF b.purchasePrice # 0
        THEN [b EXCEPT !.totalCost = totalCost,
                       !.costPerKg =
                           IF b.receivedQuantity # 0 /\ b.unit = "KG"
                           THEN [num |-> totalCost, den |-> b.receivedQuantity]
                           ELSE b.costPerKg]
        ELSE b

InitBatch ==
    /\ NoProducts
    /\ kind = "batch"
    /\ order = NewOrder
    /\ invoice = NewInvoice
    /\ dirty = TRUE
    /\ edits = 0
    /\ now = 0
    /\ NoOthers

\* A caller changes the batch in memory.
EditBatch(b2) ==
    /\ kind = "batch"
    /\ edits < MaxEdits
    /\ edits' = edits + 1
    /\ batch' = b2
    /\ dirty' = TRUE
    /\ UNCHANGED <<kind, order, invoice, now, expense, rates, created, creating>>
    /\ UNCHANGED pvars

SetBatchCosts(price, shipping, duty) ==
    /\ <<price, shipping, duty>>
         # <<batch.purchasePrice, batch.shippingCost, batch.customsDuty>>
    /\ EditBatch([batch EXCEPT !.purchasePrice = price,
                               !.shippingCost = shipping,
                               !.customsDuty = duty])

SetBatchReceived(q) ==
    /\ batch.receivedQuantity # q
    /\ EditBatch([batch EXCEPT !.receivedQuantity = q])

SetBatchUnit(u) ==
    /\ batch.unit # u
    /\ EditBatch([batch EXCEPT !.unit = u])

\* batch.save(): the validators, then the pre('save') hook.
SaveBatch ==
    /\ kind = "batch"
    /\ dirty
    /\ BatchValidate(batch)
    /\ batch' = BatchPreSave(batch)
    /\ dirty' = FALSE
    /\ UNCHANGED <<kind, order, invoice, edits, now, expense, rates, created, creating>>
    /\ UNCHANGED pvars

\* The status path of a batch; PARTIALLY_SORTED is optional.
BatchPath ==
    <<"ORDERED", "IN_TRANSIT", "RECEIVED", "IN_SORTING", "PARTIALLY_SORTED",
      "SORTED", "IN_STORAGE", "COMPLETED">>

BatchIndex(st) == CHOOSE i \in 1..Len(BatchPath) : BatchPath[i] = st

\* A batch may be cancelled before it is received.
BatchCancellableAny(st) == st \notin {"COMPLETED", "CANCELLED"}
BatchCancellable(st) == st \in {"ORDERED", "IN_TRANSIT"}

\* The transitions a status change accepts.
BatchAllowed(from, to) ==
    \/ to = "CANCELLED" /\ BatchCancellable(from)
    \/ /\ from # "CANCELLED"
       /\ to # "CANCELLED"
       /\ \/ BatchIndex(to) = BatchIndex(from) + 1
          \/ from = "IN_SORTING" /\ to = "SORTED"

\* A request to move the batch to status st: rejected with
\* IllegalTransition, or applied and saved.
BatchStatusStep(st) ==
    /\ kind = "batch"
    /\ IF BatchAllowed(batch.status, st) /\ BatchValidate(batch)
       THEN /\ batch' = BatchPreSave([batch EXCEPT !.status = st])
            /\ dirty' = FALSE
            /\ ret' = "ok"
       ELSE /\ ret' = "IllegalTransition"
            /\ UNCHANGED <<batch, dirty>>
    /\ UNCHANGED <<kind, order, invoice, edits, now, expense, rates, created, creating>>
    /\ UNCHANGED <<db, pc, req, orig, doc, tokens, nops>>

NextBatch ==
    \/ \E p \in BatchPrices, sh \in BatchShippingCosts, d \in BatchCustomsDuties :
          SetBatchCosts(p, sh, d)
    \/ \E q \in BatchQuantities : SetBatchReceived(q)
    \/ \E u \in BatchUnits : SetBatchUnit(u)
    \/ SaveBatch
    \/ \E st \in BatchStatuses : BatchStatusStep(st)

SpecBatch == InitBatch /\ [][NextBatch]_vars

C23_BatchCostPerUnit ==
    (kind = "batch" /\ ~dirty /\ batch.receivedQuantity > 0) =>
        /\ batch.totalCost = batch.purchasePrice + batch.shippingCost
                             + batch.customsDuty + batch.otherCosts
        /\ batch.costPerKg.den # 0
        /\ batch.costPerKg.num * batch.receivedQuantity
             = batch.totalCost * batch.costPerKg.den

\* C24: after a save of a batch whose receivedQuantity is 0 or unset, the
\* cost per unit holds no number: not one computed from another quantity
\* and not one left over from an earlier save.
C24_CostUnknownWithoutQuantity ==
    (kind = "batch" /\ ~dirty /\ batch.receivedQuantity = 0) =>
        batch.costPerKg = NoNumber


\* ------------------------------------------- exchange rates and expenses
MaxRates == 2
MaxDate == 2
Dates == 0..MaxDate

\* The values the steps below choose from.
RateCurrencies == {"USD"}
ExpenseCurrencies == {"EUR", "USD", "GBP"}
RateValues == {2, 4}
ExpenseAmounts == {100}

\* The ExchangeRate documents a caller may insert: the validity window is
\* the caller's, isActive has its default.
RateInputs ==
    {[fromCurrency |-> c, toCurrency |-> "EUR", rate |-> v, date |-> d,
      validFrom |-> vf, validTo |-> vt, isActive |-> TRUE] :
        c \in RateCurrencies, v \in RateValues, d \in Dates, vf \in Dates,
        vt \in {NoDate} \cup Dates}

\* The validators of ExchangeRateSchema.
RateValidate(r) == r.rate >= 0

\* The unique index on (fromCurrency, toCurrency, date).
RateIndexFree(r, rs) ==
    \A r2 \in rs : <<r2.fromCurrency, r2.toCurrency, r2.date>>
                     # <<r.fromCurrency, r.toCurrency, r.date>>

\* ExchangeRate.findOne({fromCurrency, toCurrency: 'EUR',
\*   date: {$lte: expenseDate}, isActive: true}).sort({date: -1}):
\* the set holding the document found, empty when there is none.
FindRate(rs, currency, expenseDate) ==
    LET found == {r \in rs : /\ r.fromCurrency = currency
                             /\ r.toCurrency = "EUR"
                             /\ r.date <= expenseDate
                             /\ r.isActive}
    IN  {r \in found : \A r2 \in found : r2.date <= r.date}

\* The validators of ExpenseSchema: amount min 0, amountInEuro required.
ExpenseValidate(e) ==
    /\ e.amount >= 0
    /\ e.amountInEuro # NoNumber

\* ExpenseSchema.pre('save'), the conversion to Euro.
ExpensePreSave(e, rs) ==
    IF e.currency # "EUR"
    THEN LET found == FindRate(rs, e.currency, e.expenseDate)
         IN  IF found # {}
             THEN [e EXCEPT !.amountInEuro =
                     [num |-> e.amount, den |-> (CHOOSE r \in found : TRUE).rate]]
             ELSE e
    ELSE [e EXCEPT !.amountInEuro = [num |-> e.amount, den |-> 1]]

InitRates ==
    /\ NoProducts
    /\ kind = "expense"
    /\ order = NewOrder
    /\ invoice = NewInvoice
    /\ dirty = TRUE
    /\ edits = 0
    /\ now = 0
    /\ NoOthers

\* A caller sets the amount, currency and date of the expense in memory.
SetExpense(amount, currency, expenseDate) ==
    /\ kind = "expense"
    /\ edits < MaxEdits
    /\ <<amount, currency, expenseDate>>
         # <<expense.amount, expense.currency, expense.expenseDate>>
    /\ edits' = edits + 1
    /\ expense' = [expense EXCEPT !.amount = amount, !.currency = currency,
                                  !.expenseDate = expenseDate]
    /\ dirty' = TRUE
    /\ UNCHANGED <<kind, order, invoice, now, batch, rates, created, creating>>
    /\ UNCHANGED pvars

\* expense.save(): the validators, then the pre('save') hook.
SaveExpense ==
    /\ kind = "expense"
    /\ dirty
    /\ ExpenseValidate(expense)
    /\ expense' = ExpensePreSave(expense, rates)
    /\ dirty' = FALSE
    /\ UNCHANGED <<kind, order, invoice, edits, now, batch, rates, created, creating>>
    /\ UNCHANGED pvars

\* A new ExchangeRate document is saved; the expense was last saved
\* against the rates before it.
InsertRate(r) ==
    /\ kind = "expense"
    /\ Cardinality(rates) < MaxRates
    /\ RateValidate(r)
    /\ RateIndexFree(r, rates)
    /\ rates' = rates \cup {r}
    /\ dirty' = TRUE
    /\ UNCHANGED <<kind, order, invoice, edits, now, batch, expense, created, creating>>
    /\ UNCHANGED pvars

\* A stored ExchangeRate document is loaded, its rate changed, and saved:
\* no path of the schema is immutable.
UpdateRate(r, v) ==
    /\ kind = "expense"
    /\ r \in rates
    /\ r.rate # v
    /\ RateValidate([r EXCEPT !.rate = v])
    /\ rates' = (rates \ {r}) \cup {[r EXCEPT !.rate = v]}
    /\ dirty' = TRUE
    /\ UNCHANGED <<kind, order, invoice, edits, now, batch, expense, created, creating>>
    /\ UNCHANGED pvars

NextRates ==
    \/ \E a \in ExpenseAmounts, c \in ExpenseCurrencies, d \in Dates :
          SetExpense(a, c, d)
    \/ SaveExpense
    \/ \E r \in RateInputs : InsertRate(r)
    \/ \E r \in RateInputs, v \in RateValues : UpdateRate(r, v)

SpecRates == InitRates /\ [][NextRates]_vars

\* The rates of the pair (currency, EUR) that apply at t: validFrom <= t and
\* validTo absent or > t; the current ones are those with the latest
\* validFrom.
ApplicableRates(currency, t) ==
    {r \in rates : /\ r.fromCurrency = currency
                   /\ r.toCurrency = "EUR"
                   /\ r.validFrom <= t
                   /\ (r.validTo = NoDate \/ r.validTo > t)}

CurrentRates(currency, t) ==
    {r \in ApplicableRates(currency, t) :
        \A r2 \in ApplicableRates(currency, t) : r2.validFrom <= r.validFrom}

\* C25: a saved expense in a currency for which rates are stored was
\* converted with the rate that has the latest validFrom <= expenseDate and
\* a validTo that is absent or > expenseDate; a rate that expired at or
\* before expenseDate is never used, and when every rate of the pair has
\* expired no converted expense is saved.
C25_RateValidAtAsOf ==
    (/\ kind = "expense"
     /\ ~dirty
     /\ expense.currency # "EUR"
     /\ \E r \in rates : r.fromCurrency = expense.currency) =>
        \E r \in CurrentRates(expense.currency, expense.expenseDate) :
            expense.amountInEuro = [num |-> expense.amount, den |-> r.rate]

\* C26: no expense in a non-EUR currency is saved while no rate applies at
\* its date: the save fails with NoRateFound instead of storing an
\* amountInEuro that was guessed or left over.
C26_NoRateFound ==
    ~(/\ kind = "expense"
      /\ ~dirty
      /\ expense.currency # "EUR"
      /\ ApplicableRates(expense.currency, expense.expenseDate) = {})

\* C27: for every currency pair and every instant at most one stored rate
\* is current, after any sequence of insertions; stored rates are never
\* removed and their from, to, rate and validFrom never change.
C27_OneCurrentRate ==
    /\ [](\A c \in RateCurrencies, t \in Dates :
             Cardinality(CurrentRates(c, t)) <= 1)
    /\ [][rates \subseteq rates']_vars


\* ------------------------------------------------- document numbers
\* OrderSchema, BatchSchema and InvoiceSchema generate the number of a new
\* document in the same way: pre('save') counts the stored documents of the
\* period (the day, the month, the type and year) and uses count + 1; the
\* number field is required and unique. created holds the numbers of the
\* stored documents of one period, in the order of their insertion.
MaxDocs == 3

\* The numbers of the stored documents.
StoredNumbers == {created[i] : i \in 1..Len(created)}

\* The sequence s without its i-th element.
RemoveAt(s, i) == [j \in 1..(Len(s) - 1) |-> IF j < i THEN s[j] ELSE s[j + 1]]

InitNumbers ==
    /\ NoProducts
    /\ kind = "numbers"
    /\ order = NewOrder
    /\ invoice = NewInvoice
    /\ dirty = FALSE
    /\ edits = 0
    /\ now = 0
    /\ NoOthers

\* First half of the save of a new document without a number: with
\* validation (the default) the required number is missing and the save
\* ends before the hook runs; with validateBeforeSave: false the hook runs
\* and awaits countDocuments.
BeginCreate(c, validate) ==
    /\ kind = "numbers"
    /\ creating[c].pc = "idle"
    /\ Len(created) < MaxDocs
    /\ creating' = [creating EXCEPT ![c] =
          IF validate
          THEN [pc |-> "done", count |-> 0, res |-> "ValidationError"]
          ELSE [pc |-> "counted", count |-> Len(created), res |-> "none"]]
    /\ UNCHANGED <<kind, order, invoice, dirty, edits, now, batch, expense, rates, created>>
    /\ UNCHANGED pvars

\* Second half: the number is count + 1 and the document is inserted; the
\* unique index rejects a number that is already stored.
FinishCreate(c) ==
    /\ kind = "numbers"
    /\ creating[c].pc = "counted"
    /\ LET number == creating[c].count + 1
       IN  IF number \in StoredNumbers
           THEN /\ creating' = [creating EXCEPT ![c].pc = "done",
                                                ![c].res = "DuplicateKey"]
                /\ UNCHANGED created
           ELSE /\ creating' = [creating EXCEPT ![c].pc = "done",
                                                ![c].res = "ok"]
                /\ created' = Append(created, number)
    /\ UNCHANGED <<kind, order, invoice, dirty, edits, now, batch, expense, rates>>
    /\ UNCHANGED pvars

\* The caller has its result and may create another document.
EndCreate(c) ==
    /\ kind = "numbers"
    /\ creating[c].pc = "done"
    /\ creating' = [creating EXCEPT ![c] = NotCreating]
    /\ UNCHANGED <<kind, order, invoice, dirty, edits, now, batch, expense, rates, created>>
    /\ UNCHANGED pvars

\* A stored document of the period is deleted.
DeleteDocument(i) ==
    /\ kind = "numbers"
    /\ i \in 1..Len(created)
    /\ created' = RemoveAt(created, i)
    /\ UNCHANGED <<kind, order, invoice, dirty, edits, now, batch, expense, rates, creating>>
    /\ UNCHANGED pvars

NextNumbers ==
    \/ \E c \in Callers, validate \in BOOLEAN : BeginCreate(c, validate)
    \/ \E c \in Callers : FinishCreate(c)
    \/ \E c \in Callers : EndCreate(c)
    \/ \E i \in 1..MaxDocs : DeleteDocument(i)

SpecNumbers == InitNumbers /\ [][NextNumbers]_vars

\* C30: whatever the interleaving of concurrent first saves in one period,
\* and also after stored documents of the period were deleted, no two
\* stored documents have the same number and every first save that has
\* finished completed with a number assigned.
C30_UniqueDocumentNumbers ==
    /\ \A i, j \in 1..Len(created) : i # j => created[i] # created[j]
    /\ \A c \in Callers : creating[c].pc = "done" => creating[c].res = "ok"

====
